---- MODULE Spec2Model ----
(***************************************************************************)
(* Model of clone_dynamo.py: the resumable DynamoDB table copy             *)
(* (DynamoUtils.__init__, startup_check, clone_dynamodb_table).            *)
(*                                                                         *)
(* Python dicts are functions from keys to values; a key that is absent    *)
(* from a dict is absent from the function's domain.  Python's None, as    *)
(* the value of a JSON null record, is the value None below; the in-memory *)
(* cursor self.last_evaluated_key = None is NoKey.  A DynamoDB key is the  *)
(* number of the item it names: the source table holds the items           *)
(* 1..total_items in scan order and a scan page holds at most PageSize of  *)
(* them.  Cursors are assumed JSON-serialisable, so json.dump/json.load of *)
(* the state document is the identity on the dicts modelled here.          *)
(***************************************************************************)
EXTENDS Integers, Sequences, FiniteSets, TLC

\* ---- bounds of the model ----
MaxItems == 5      \* the source table holds 0..MaxItems items
PageSize == 2      \* items per scan page (DynamoDB's page limit)
MaxClock == 2      \* the wall clock runs over 0..MaxClock seconds
MaxRuns == 3       \* process runs in one behaviour

VARIABLES
    state_file,          \* ~/.aws_tools/dynamo_clone.json: [exists, valid, doc]
    dir_exists,          \* whether ~/.aws_tools exists
    total_items,         \* size of the scanned table
    params,              \* self.params: the parsed arguments of this job
    other_params,        \* the arguments of another job that uses the same state file
    prev,                \* history: job_id and outcome of the previous process
    other,               \* the process of the other job, when it runs concurrently
    written,             \* items handed to the destination batch writer
    clock,               \* wall clock, in seconds
    runs,                \* number of process runs started
    pc,                  \* position of the current process
    last_state,          \* self.last_state
    last_evaluated_key,  \* self.last_evaluated_key
    scan_response,       \* the local scan_response of the pump
    item_idx,            \* items of scan_response already put by the for loop
    loaded,              \* history: state_file as startup_check found it
    prompted,            \* history: click.confirm was called in this run
    confirmed,           \* history: click.confirm was called and returned True
    start_key,           \* history: last_evaluated_key at the end of startup_check
    start_now,           \* history: _now() at startup_check
    scan_keys,           \* history: ExclusiveStartKey of every scan call of this run
    put_log,             \* history: per scan call, whether its page reached put_item in full
    saves,               \* history: json.dump calls of this run
    error                \* history: the exception that ended the run, or "none"

vars == <<state_file, dir_exists, total_items, params, other_params, prev, other, written, clock, runs, pc,
          last_state, last_evaluated_key, scan_response, item_idx, loaded,
          prompted, confirmed, start_key, start_now, scan_keys, put_log, saves, error>>

\* ---- values ----
\* argparse.Namespace of main(): the tables vary, the rest is fixed
Namespace(src_table, dst_table) ==
    [src_region |-> "r1", dst_region |-> "r2",
     src_table |-> src_table, dst_table |-> dst_table,
     src_access_id |-> "id1", src_access_key |-> "key1",
     dst_access_id |-> "id2", dst_access_key |-> "key2"]
Params == { Namespace("a", "ab"), Namespace("aa", "b"), Namespace("b", "b") }
\* the other job that shares the state file with the job of parameters p
OtherOf(p) ==
    IF p = Namespace("a", "ab") THEN Namespace("aa", "b")
    ELSE IF p = Namespace("aa", "b") THEN Namespace("b", "b")
    ELSE Namespace("a", "ab")

\* str(params): "Namespace(src_region='r1', dst_region='r2', ...)", every
\* field by name with its quoted value, in the order main() adds them
Fields == <<"src_region", "dst_region", "src_table", "dst_table",
            "src_access_id", "src_access_key", "dst_access_id", "dst_access_key">>
Str(p) == [i \in 1..Len(Fields) |-> <<Fields[i], p[Fields[i]]>>]

\* mutant of derive_id: a digest salted per process (as the built-in hash() is)
derive_id_PerProcess(p) == <<"sha256", runs, Str(p)>>

\* hashlib.sha256(str(params).encode()).hexdigest(): the digest stands for
\* the string it was computed from
derive_id(p) == <<"sha256", Str(p)>>

job_id == derive_id(params)            \* self.job_id
OtherJob == derive_id(other_params)    \* the job_id of the other job
JobIds == {job_id, OtherJob}
NoJob == <<>>                          \* no previous process

\* source_table_name and target_table_name of clone_dynamodb_table
source_table_name == params.dst_table
target_table_name == params.dst_table

\* the other job's process before it is started
NotStarted ==
    [pc |-> "off", last_state |-> [k \in {} |-> 0], last_evaluated_key |-> 0,
     loaded |-> [k \in {} |-> 0], load_saves |-> 0, save_saves |-> 0, error |-> "none"]
NoKey == 0                     \* self.last_evaluated_key = None
None == [null |-> TRUE]        \* a JSON null / Python None record
EmptyDict == [k \in {} |-> 0]  \* {}
NoResponse == [Items |-> <<>>] \* scan_response before the first scan

Min(a, b) == IF a < b THEN a ELSE b

\* bool(v) of a record value: None and {} are falsy
Truthy(v) == v # None /\ DOMAIN v # {}

\* mutant of Update: the dict is assigned instead of updated
Update_Assign(d, e) == e

\* dict.update(e)
Update(d, e) == [k \in DOMAIN d \cup DOMAIN e |-> IF k \in DOMAIN e THEN e[k] ELSE d[k]]

\* mutant of Pop: the key is left in the dict
Pop_Keep(d, k) == d

\* dict.pop(k)
Pop(d, k) == [j \in DOMAIN d \ {k} |-> d[j]]

\* datetime.now().strftime("%m/%d/%Y %H:%M:%S"): the clock to the second
_now == clock

\* {'state': 'NEW', 'start_time': self._now()}
NewRecord(t) == [state |-> "NEW", start_time |-> t]

\* the cursor a record carries, NoKey when it carries none
CursorOf(r) ==
    IF r # None /\ "last_evaluated_key" \in DOMAIN r THEN r["last_evaluated_key"] ELSE NoKey

\* ---- the state file ----
MissingFile == [exists |-> FALSE, valid |-> FALSE, doc |-> EmptyDict]
CorruptFile == [exists |-> TRUE, valid |-> FALSE, doc |-> EmptyDict]
DocFile(d) == [exists |-> TRUE, valid |-> TRUE, doc |-> d]

\* json.load(state_file); on JSONDecodeError last_state keeps its {}
Load(f) == IF f.valid THEN f.doc ELSE EmptyDict

\* json.dump(self.last_state, state_file) on a file opened with mode 'w+'
Dump(c) == DocFile(c)

\* the elif condition of startup_check
IsRunning(c) == Truthy(c[job_id]) /\ c[job_id]["state"] = "RUNNING"

\* mutant of ResolveState: a declined resume leaves the RUNNING record in place
ResolveState_KeepOnDecline(c, answer, t) ==
    IF job_id \notin DOMAIN c THEN Update(c, job_id :> NewRecord(t)) ELSE c

\* mutant of ResolveState: an absent job_id gets no record
ResolveState_NoInsert(c, answer, t) ==
    IF job_id \in DOMAIN c /\ IsRunning(c) /\ ~answer
    THEN Update(c, job_id :> NewRecord(t))
    ELSE c

\* self.last_state after the if/elif of startup_check
ResolveState(c, answer, t) ==
    IF job_id \notin DOMAIN c
    THEN Update(c, job_id :> NewRecord(t))
    ELSE IF IsRunning(c)
         THEN IF answer THEN c ELSE Update(c, job_id :> NewRecord(t))
         ELSE c

\* mutant of ResolveKey: a confirmed resume does not take the recorded cursor
ResolveKey_Forget(c, answer) == NoKey

\* self.last_evaluated_key after the if/elif of startup_check
ResolveKey(c, answer) ==
    IF job_id \in DOMAIN c /\ IsRunning(c) /\ answer
    THEN c[job_id]["last_evaluated_key"]
    ELSE NoKey

\* ---- the source table ----
\* src_table.scan(ExclusiveStartKey=key), src_table.scan() for key = NoKey:
\* the next page after key, with LastEvaluatedKey when the page is full
PageLen(key) == Min(PageSize, total_items - key)
Scan(key) ==
    LET n == PageLen(key)
        items == [i \in 1..n |-> key + i]
    IN IF n = PageSize
       THEN [Items |-> items, LastEvaluatedKey |-> key + n]
       ELSE [Items |-> items]

\* ---- initial states ----
OtherRecords ==
    { NewRecord(0),
      [state |-> "RUNNING", start_time |-> 0, last_evaluated_key |-> PageSize, end_time |-> 0] }

\* documents no run of this job has written yet: the job's record is absent,
\* or a hand-edited null or {}; another job's record may be there
InitDocs ==
    { d \in UNION { [S -> OtherRecords \cup {None, EmptyDict}] : S \in SUBSET JobIds } :
        /\ job_id \in DOMAIN d => d[job_id] \in {None, EmptyDict}
        /\ OtherJob \in DOMAIN d => d[OtherJob] \in OtherRecords }

Init ==
    /\ runs = 1
    /\ params \in Params
    /\ other_params = OtherOf(params)
    /\ prev = [job_id |-> NoJob, failed |-> FALSE]
    /\ other = NotStarted
    /\ state_file \in {MissingFile, CorruptFile} \cup { DocFile(d) : d \in InitDocs }
    /\ dir_exists \in (IF state_file.exists THEN {TRUE} ELSE BOOLEAN)
    /\ total_items \in 0..MaxItems
    /\ written = {}
    /\ clock = 0
    /\ pc = "start"
    /\ last_state = EmptyDict
    /\ last_evaluated_key = NoKey
    /\ scan_response = NoResponse
    /\ item_idx = 0
    /\ loaded = state_file
    /\ prompted = FALSE
    /\ confirmed = FALSE
    /\ start_key = NoKey
    /\ start_now = 0
    /\ scan_keys = <<>>
    /\ put_log = <<>>
    /\ saves = 0
    /\ error = "none"

\* mutant of StartupCheck: json.load without the except clause
StartupCheck_NoExcept ==
    /\ pc = "start"
    /\ dir_exists' = TRUE
    /\ loaded' = state_file
    /\ start_now' = _now
    /\ IF ~state_file.exists \/ ~state_file.valid
       THEN /\ pc' = "crashed"
            /\ error' = IF state_file.exists THEN "JSONDecodeError" ELSE "FileNotFoundError"
            /\ UNCHANGED <<last_state, last_evaluated_key, prompted, confirmed,
                           start_key>>
       ELSE LET c == Load(state_file) IN
            \E answer \in BOOLEAN :
                /\ last_state' = ResolveState(c, answer, _now)
                /\ last_evaluated_key' = ResolveKey(c, answer)
                /\ start_key' = ResolveKey(c, answer)
                /\ prompted' = (job_id \in DOMAIN c /\ IsRunning(c))
                /\ confirmed' = (prompted' /\ answer)
                /\ pc' = "pump"
                /\ UNCHANGED error
    /\ UNCHANGED <<state_file, total_items, params, other_params, prev, other,
                   written, clock, runs, scan_response, item_idx, scan_keys,
                   put_log, saves>>

\* ---- DynamoUtils.startup_check ----
StartupCheck ==
    /\ pc = "start"
    /\ dir_exists' = TRUE
    /\ loaded' = state_file
    /\ start_now' = _now
    /\ IF ~state_file.exists
       THEN \* open(..., mode='r+') raises FileNotFoundError out of __init__
            /\ pc' = "crashed"
            /\ error' = "FileNotFoundError"
            /\ UNCHANGED <<last_state, last_evaluated_key, prompted, confirmed,
                           start_key>>
       ELSE LET c == Load(state_file) IN
            \E answer \in BOOLEAN :
                /\ last_state' = ResolveState(c, answer, _now)
                /\ last_evaluated_key' = ResolveKey(c, answer)
                /\ start_key' = ResolveKey(c, answer)
                /\ prompted' = (job_id \in DOMAIN c /\ IsRunning(c))
                /\ confirmed' = (prompted' /\ answer)
                /\ pc' = "pump"
                /\ UNCHANGED error
    /\ UNCHANGED <<state_file, total_items, params, other_params, prev, other, written, clock, runs, scan_response,
                   item_idx, scan_keys, put_log, saves>>

\* ---- DynamoUtils.clone_dynamodb_table: the while loop ----
\* mutant of ScanPage: the record's cursor is advanced as soon as the page is
\* scanned, before its items are put
ScanPage_AdvanceEarly ==
    /\ pc = "pump"
    /\ scan_response' = Scan(last_evaluated_key)
    /\ scan_keys' = Append(scan_keys, last_evaluated_key)
    /\ item_idx' = 0
    /\ put_log' = Append(put_log, Len(scan_response'.Items) = 0)
    /\ pc' = IF last_evaluated_key # NoKey \/ Len(scan_response'.Items) = 0
             THEN "checkpoint" ELSE "write"
    /\ last_state' =
          IF "LastEvaluatedKey" \in DOMAIN scan_response' /\ last_state[job_id] # None
          THEN [last_state EXCEPT ![job_id] =
                   Update(@, [state |-> "RUNNING",
                              last_evaluated_key |-> scan_response'.LastEvaluatedKey,
                              end_time |-> _now])]
          ELSE last_state
    /\ UNCHANGED <<state_file, dir_exists, total_items, params, other_params, prev, other, written, clock, runs,
                   last_evaluated_key, loaded, prompted, confirmed, start_key,
                   start_now, saves, error>>

\* lines 90-93: the scan call returns a page
ScanPage ==
    /\ pc = "pump"
    /\ scan_response' = Scan(last_evaluated_key)
    /\ scan_keys' = Append(scan_keys, last_evaluated_key)
    /\ item_idx' = 0
    /\ put_log' = Append(put_log, Len(scan_response'.Items) = 0)
    /\ IF last_evaluated_key # NoKey
       THEN \* the if branch: no item of the page is put
            pc' = "checkpoint"
       ELSE \* the else branch: the for loop over scan_response['Items']
            pc' = IF Len(scan_response'.Items) = 0 THEN "checkpoint" ELSE "write"
    /\ UNCHANGED <<state_file, dir_exists, total_items, params, other_params, prev, other, written, clock, runs,
                   last_state, last_evaluated_key, loaded, prompted, confirmed, start_key,
                   start_now, saves, error>>

\* lines 90-93: the scan call raises
ScanFail ==
    /\ pc = "pump"
    /\ scan_keys' = Append(scan_keys, last_evaluated_key)
    /\ put_log' = Append(put_log, FALSE)
    /\ error' = "scan"
    /\ pc' = "finally"
    /\ UNCHANGED <<state_file, dir_exists, total_items, params, other_params, prev, other, written, clock, runs,
                   last_state, last_evaluated_key, scan_response, item_idx,
                   loaded, prompted, confirmed, start_key, start_now, saves>>

\* lines 95-97: batch.put_item(Item=item) of the next item of the page
PutItem ==
    /\ pc = "write"
    /\ item_idx < Len(scan_response.Items)
    /\ written' = written \cup {scan_response.Items[item_idx + 1]}
    /\ item_idx' = item_idx + 1
    /\ IF item_idx' = Len(scan_response.Items)
       THEN /\ pc' = "checkpoint"
            /\ put_log' = [put_log EXCEPT ![Len(put_log)] = TRUE]
       ELSE UNCHANGED <<pc, put_log>>
    /\ UNCHANGED <<state_file, dir_exists, total_items, params, other_params, prev, other, clock, runs, last_state,
                   last_evaluated_key, scan_response, loaded, prompted, confirmed,
                   start_key, start_now, scan_keys, saves, error>>

\* lines 95-97: batch.put_item raises (a flush to the destination fails)
PutItemFail ==
    /\ pc = "write"
    /\ item_idx < Len(scan_response.Items)
    /\ error' = "write"
    /\ pc' = "finally"
    /\ UNCHANGED <<state_file, dir_exists, total_items, params, other_params, prev, other, written, clock, runs,
                   last_state, last_evaluated_key, scan_response, item_idx,
                   loaded, prompted, confirmed, start_key, start_now, scan_keys, put_log,
                   saves>>

\* lines 99-107: advance the cursor and the record, or pop the record and break
Checkpoint ==
    /\ pc = "checkpoint"
    /\ IF "LastEvaluatedKey" \in DOMAIN scan_response
       THEN /\ last_evaluated_key' = scan_response.LastEvaluatedKey
            /\ IF last_state[job_id] = None
               THEN \* None has no update(): AttributeError
                    /\ error' = "AttributeError"
                    /\ pc' = "finally"
                    /\ UNCHANGED last_state
               ELSE /\ last_state' =
                         [last_state EXCEPT ![job_id] =
                             Update(@, [state |-> "RUNNING",
                                        last_evaluated_key |-> scan_response.LastEvaluatedKey,
                                        end_time |-> _now])]
                    /\ pc' = "pump"
                    /\ UNCHANGED error
       ELSE /\ last_state' = Pop(last_state, job_id)
            /\ pc' = "finally"
            /\ UNCHANGED <<last_evaluated_key, error>>
    /\ UNCHANGED <<state_file, dir_exists, total_items, params, other_params, prev, other, written, clock, runs,
                   scan_response, item_idx, loaded, prompted, confirmed, start_key,
                   start_now, scan_keys, put_log, saves>>

\* mutant of Save: the file is rewritten after the loop, not in a finally block
Save_NoFinally ==
    /\ pc = "finally"
    /\ IF error = "none"
       THEN /\ state_file' = Dump(last_state)
            /\ saves' = saves + 1
            /\ pc' = "exit_ok"
       ELSE /\ pc' = "exit_err"
            /\ UNCHANGED <<state_file, saves>>
    /\ UNCHANGED <<dir_exists, total_items, params, other_params, prev, other, written, clock, runs, last_state,
                   last_evaluated_key, scan_response, item_idx, loaded,
                   prompted, confirmed, start_key, start_now, scan_keys, put_log,
                   error>>

\* lines 110-112: the finally block rewrites the state file
Save ==
    /\ pc = "finally"
    /\ state_file' = Dump(last_state)
    /\ saves' = saves + 1
    /\ pc' = IF error = "none" THEN "exit_ok" ELSE "exit_err"
    /\ UNCHANGED <<dir_exists, total_items, params, other_params, prev, other, written, clock, runs, last_state,
                   last_evaluated_key, scan_response, item_idx, loaded,
                   prompted, confirmed, start_key, start_now, scan_keys, put_log, error>>

\* ---- the environment ----
\* the process is killed: nothing more of it runs, the finally block included
Terminate ==
    /\ pc \in {"pump", "write", "checkpoint", "finally"}
    /\ pc' = "killed"
    /\ UNCHANGED <<state_file, dir_exists, total_items, params, other_params, prev, other, written, clock, runs,
                   last_state, last_evaluated_key, scan_response, item_idx,
                   loaded, prompted, confirmed, start_key, start_now, scan_keys, put_log,
                   saves, error>>

\* the process is killed inside json.dump: the file, truncated by the open
\* with mode 'w+', holds no or a partial document
TerminateInDump ==
    /\ pc = "finally"
    /\ state_file' = CorruptFile
    /\ pc' = "killed"
    /\ UNCHANGED <<dir_exists, total_items, params, other_params, prev, other,
                   written, clock, runs, last_state, last_evaluated_key,
                   scan_response, item_idx, loaded, prompted, confirmed,
                   start_key, start_now, scan_keys, put_log, saves, error>>

\* main(): a new process with the same parameters; DynamoUtils.__init__
NewRun ==
    /\ pc \in {"exit_ok", "exit_err", "killed", "crashed"}
    /\ runs < MaxRuns
    /\ runs' = runs + 1
    /\ pc' = "start"
    /\ last_state' = EmptyDict
    /\ last_evaluated_key' = NoKey
    /\ scan_response' = NoResponse
    /\ item_idx' = 0
    /\ loaded' = state_file
    /\ prompted' = FALSE
    /\ confirmed' = FALSE
    /\ start_key' = NoKey
    /\ start_now' = 0
    /\ scan_keys' = <<>>
    /\ put_log' = <<>>
    /\ saves' = 0
    /\ error' = "none"
    /\ prev' = [job_id |-> job_id, failed |-> (pc = "exit_err")]
    /\ UNCHANGED <<state_file, dir_exists, total_items, params, other_params,
                   other, written, clock>>

\* a second passes
Tick ==
    /\ clock < MaxClock
    /\ clock' = clock + 1
    /\ UNCHANGED <<state_file, dir_exists, total_items, params, other_params, prev, other, written, runs, pc,
                   last_state, last_evaluated_key, scan_response, item_idx,
                   loaded, prompted, confirmed, start_key, start_now, scan_keys, put_log,
                   saves, error>>

Next ==
    \/ StartupCheck
    \/ ScanPage
    \/ ScanFail
    \/ PutItem
    \/ PutItemFail
    \/ Checkpoint
    \/ Save
    \/ Terminate
    \/ TerminateInDump
    \/ NewRun
    \/ Tick

Spec == Init /\ [][Next]_vars

\* ---- two jobs at once on one state file ----
\* The other job's process runs the same code with other_params; its fields
\* are in the record other.  Its destination is not observed.

\* self.last_state after the if/elif of startup_check, for the job j
ResolveStateOf(j, c, answer, t) ==
    IF j \notin DOMAIN c
    THEN Update(c, j :> NewRecord(t))
    ELSE IF Truthy(c[j]) /\ c[j]["state"] = "RUNNING"
         THEN IF answer THEN c ELSE Update(c, j :> NewRecord(t))
         ELSE c

\* self.last_evaluated_key after the if/elif of startup_check, for the job j
ResolveKeyOf(j, c, answer) ==
    IF j \in DOMAIN c /\ Truthy(c[j]) /\ c[j]["state"] = "RUNNING" /\ answer
    THEN c[j]["last_evaluated_key"]
    ELSE NoKey

\* main() of the other job: DynamoUtils.__init__
OtherStart ==
    /\ other.pc = "off"
    /\ other' = [other EXCEPT !.pc = "start"]
    /\ UNCHANGED <<state_file, dir_exists, total_items, params, other_params, prev,
                   written, clock, runs, pc, last_state, last_evaluated_key,
                   scan_response, item_idx, loaded, prompted, confirmed,
                   start_key, start_now, scan_keys, put_log, saves, error>>

\* startup_check of the other job
OtherStartupCheck ==
    /\ other.pc = "start"
    /\ dir_exists' = TRUE
    /\ IF ~state_file.exists
       THEN other' = [other EXCEPT !.pc = "crashed", !.error = "FileNotFoundError"]
       ELSE LET c == Load(state_file) IN
            \E answer \in BOOLEAN :
                other' = [other EXCEPT
                            !.pc = "pump",
                            !.last_state = ResolveStateOf(OtherJob, c, answer, _now),
                            !.last_evaluated_key = ResolveKeyOf(OtherJob, c, answer),
                            !.loaded = c,
                            !.load_saves = saves]
    /\ UNCHANGED <<state_file, total_items, params, other_params, prev,
                   written, clock, runs, pc, last_state, last_evaluated_key,
                   scan_response, item_idx, loaded, prompted, confirmed,
                   start_key, start_now, scan_keys, put_log, saves, error>>

\* lines 89-107 of the other job: one iteration of the while loop
OtherIteration ==
    /\ other.pc = "pump"
    /\ LET resp == Scan(other.last_evaluated_key) IN
       IF "LastEvaluatedKey" \in DOMAIN resp
       THEN IF other.last_state[OtherJob] = None
            THEN other' = [other EXCEPT
                             !.pc = "finally",
                             !.error = "AttributeError",
                             !.last_evaluated_key = resp.LastEvaluatedKey]
            ELSE other' = [other EXCEPT
                             !.last_evaluated_key = resp.LastEvaluatedKey,
                             !.last_state[OtherJob] =
                                 Update(@, [state |-> "RUNNING",
                                            last_evaluated_key |-> resp.LastEvaluatedKey,
                                            end_time |-> _now])]
       ELSE other' = [other EXCEPT
                        !.pc = "finally",
                        !.last_state = Pop(@, OtherJob)]
    /\ UNCHANGED <<state_file, dir_exists, total_items, params, other_params, prev,
                   written, clock, runs, pc, last_state, last_evaluated_key,
                   scan_response, item_idx, loaded, prompted, confirmed,
                   start_key, start_now, scan_keys, put_log, saves, error>>

\* lines 90-96 of the other job: its scan or its put_item raises
OtherFail ==
    /\ other.pc = "pump"
    /\ other' = [other EXCEPT !.pc = "finally", !.error = "scan"]
    /\ UNCHANGED <<state_file, dir_exists, total_items, params, other_params, prev,
                   written, clock, runs, pc, last_state, last_evaluated_key,
                   scan_response, item_idx, loaded, prompted, confirmed,
                   start_key, start_now, scan_keys, put_log, saves, error>>

\* mutant of OtherSave: the job's own record is merged into the document that
\* is on disk at the time of the save
OtherSave_Merge ==
    /\ other.pc = "finally"
    /\ state_file' =
          Dump(IF OtherJob \in DOMAIN other.last_state
               THEN Update(Load(state_file), OtherJob :> other.last_state[OtherJob])
               ELSE Pop(Load(state_file), OtherJob))
    /\ other' = [other EXCEPT !.pc = "exit", !.save_saves = saves]
    /\ UNCHANGED <<dir_exists, total_items, params, other_params, prev,
                   written, clock, runs, pc, last_state, last_evaluated_key,
                   scan_response, item_idx, loaded, prompted, confirmed,
                   start_key, start_now, scan_keys, put_log, saves, error>>

\* lines 110-112 of the other job: the finally block rewrites the state file
OtherSave ==
    /\ other.pc = "finally"
    /\ state_file' = Dump(other.last_state)
    /\ other' = [other EXCEPT !.pc = "exit", !.save_saves = saves]
    /\ UNCHANGED <<dir_exists, total_items, params, other_params, prev,
                   written, clock, runs, pc, last_state, last_evaluated_key,
                   scan_response, item_idx, loaded, prompted, confirmed,
                   start_key, start_now, scan_keys, put_log, saves, error>>

NextConc ==
    \/ StartupCheck
    \/ ScanPage
    \/ ScanFail
    \/ PutItem
    \/ PutItemFail
    \/ Checkpoint
    \/ Save
    \/ OtherStart
    \/ OtherStartupCheck
    \/ OtherIteration
    \/ OtherFail
    \/ OtherSave

SpecConc == Init /\ [][NextConc]_vars

\* ---- vocabulary of the properties ----
Exited == pc \in {"exit_ok", "exit_err"}
AllItems == 1..total_items
LastScanKey == scan_keys[Len(scan_keys)]
\* the collection json.load gave this run
LoadedDoc == Load(loaded)
\* no Checkpoint of this run has acted yet
BeforeFirstCheckpoint ==
    \/ Len(scan_keys) = 0
    \/ Len(scan_keys) = 1 /\ pc \in {"write", "checkpoint"}
    \/ Len(scan_keys) = 1 /\ error \in {"scan", "write"}
\* the last scan call of this run returned a page without LastEvaluatedKey
GotFinalPage ==
    /\ Len(scan_keys) > 0
    /\ error # "scan"
    /\ "LastEvaluatedKey" \notin DOMAIN scan_response
\* the loaded collection holds the job's identifier with a value that is no
\* RUNNING record
LoadedMalformed == loaded.exists /\ job_id \in DOMAIN LoadedDoc /\ ~IsRunning(LoadedDoc)

\* C1: once a run completes (the record popped, the document saved), every
\* item of the source has been handed to the destination at least once.
C1_AtLeastOnceComplete ==
    pc = "exit_ok" => \A i \in AllItems : i \in written

\* C2: when the pump reaches the checkpoint step, every item of the page just
\* scanned has been put; and neither the in-memory cursor nor the record's
\* cursor ever points past an item that was not put.
C2_WriteBeforeAdvance ==
    /\ pc = "checkpoint" => put_log[Len(put_log)]
    /\ \A i \in 1..last_evaluated_key : i \in written
    /\ (pc \notin {"start", "crashed"} /\ job_id \in DOMAIN last_state)
          => \A i \in 1..CursorOf(last_state[job_id]) : i \in written

C4_ResumeCorrect ==
    (pc \notin {"start", "crashed"} /\ prompted /\ confirmed) =>
        /\ start_key = LoadedDoc[job_id]["last_evaluated_key"]
        /\ Len(scan_keys) > 0 => scan_keys[1] = LoadedDoc[job_id]["last_evaluated_key"]
        /\ BeforeFirstCheckpoint => last_state[job_id] = LoadedDoc[job_id]

\* a confirmed resume has issued its first scan
C4_Witness ==
    /\ prompted
    /\ confirmed
    /\ Len(scan_keys) = 1
    /\ pc = "checkpoint"

\* C5: with a loaded RUNNING record and the prompt declined, the record is a
\* fresh NEW record (start_time of this run, no cursor, no end_time) until the
\* first checkpoint, and the first scan call uses no cursor.
C5_DeclineReset ==
    (pc \notin {"start", "crashed"} /\ prompted /\ ~confirmed) =>
        /\ start_key = NoKey
        /\ Len(scan_keys) > 0 => scan_keys[1] = NoKey
        /\ BeforeFirstCheckpoint => last_state[job_id] = NewRecord(start_now)

\* a declined resume has issued its first scan, over a record with a cursor
C5_Witness ==
    /\ prompted
    /\ ~confirmed
    /\ CursorOf(LoadedDoc[job_id]) # NoKey
    /\ Len(scan_keys) = 1
    /\ pc = "write"

C7_SingleSave ==
    /\ Exited => (saves = 1 /\ state_file = DocFile(last_state))
    /\ pc \in {"pump", "write", "checkpoint", "finally"} => saves = 0

\* a run whose write failed has exited
C7_Witness ==
    /\ pc = "exit_err"
    /\ error = "write"

\* C8: the document saved by a run that started from a parseable document
\* agrees with that document on every other job's identifier.
C8_FrameOtherJobs ==
    (Exited /\ loaded.valid) =>
        \A j \in JobIds \ {job_id} :
            /\ j \in DOMAIN state_file.doc <=> j \in DOMAIN loaded.doc
            /\ j \in DOMAIN loaded.doc => state_file.doc[j] = loaded.doc[j]

\* a run completes over a document that holds another job's record
C8_Witness ==
    /\ pc = "exit_ok"
    /\ loaded.valid
    /\ OtherJob \in DOMAIN loaded.doc
    /\ job_id \in DOMAIN loaded.doc

\* C9: with no state file at startup the directory is created, nothing is
\* raised, and the job starts as a fresh NEW job without cursor.
C9_MissingFileFresh ==
    (pc # "start" /\ ~loaded.exists) =>
        /\ dir_exists
        /\ pc # "crashed"
        /\ start_key = NoKey
        /\ BeforeFirstCheckpoint => last_state[job_id] = NewRecord(start_now)

\* C10: with the job's identifier loaded with a value that is no RUNNING
\* record, no prompt is issued, a fresh NEW record of this run is installed,
\* the first scan uses no cursor, and no step raises over the record.
C10_MalformedFallback ==
    (pc # "start" /\ LoadedMalformed) =>
        /\ ~prompted
        /\ start_key = NoKey
        /\ error # "AttributeError"
        /\ BeforeFirstCheckpoint => last_state[job_id] = NewRecord(start_now)

C12_ResumableAfterKill ==
    (/\ pc = "killed"
     /\ last_evaluated_key # start_key
     /\ job_id \in DOMAIN last_state
     /\ CursorOf(last_state[job_id]) = last_evaluated_key) =>
        /\ state_file.valid
        /\ job_id \in DOMAIN state_file.doc
        /\ Truthy(state_file.doc[job_id])
        /\ state_file.doc[job_id]["state"] = "RUNNING"
        /\ CursorOf(state_file.doc[job_id]) = last_evaluated_key

\* C13: every scan call reads the table named by the src_table parameter, and
\* the writer writes the table named by the dst_table parameter.
C13_ScansSourceTable ==
    /\ Len(scan_keys) > 0 => source_table_name = params.src_table
    /\ pc \in {"write", "checkpoint"} => target_table_name = params.dst_table

C15_CheckpointChaining ==
    [][ /\ (/\ pc = "checkpoint"
            /\ pc' \notin {"checkpoint", "killed"}
            /\ "LastEvaluatedKey" \in DOMAIN scan_response) =>
              /\ pc' = "pump"
              /\ last_evaluated_key' = scan_response.LastEvaluatedKey
              /\ LET r == last_state[job_id]
                     r2 == last_state'[job_id]
                 IN /\ r2["state"] = "RUNNING"
                    /\ r2["last_evaluated_key"] = scan_response.LastEvaluatedKey
                    /\ r2["end_time"] = clock
                    /\ DOMAIN r2 = DOMAIN r \cup {"state", "last_evaluated_key", "end_time"}
                    /\ "start_time" \in DOMAIN r => r2["start_time"] = r["start_time"]
        /\ (/\ pc = "pump"
            /\ Len(scan_keys) > 0
            /\ Len(scan_keys') = Len(scan_keys) + 1) =>
              /\ "LastEvaluatedKey" \in DOMAIN scan_response
              /\ scan_keys'[Len(scan_keys')] = scan_response.LastEvaluatedKey
              /\ \A i \in 1..Len(scan_keys) : scan_keys[i] # scan_keys'[Len(scan_keys')]
      ]_vars

\* the number of scan calls that walk the table from cursor key to the page
\* without LastEvaluatedKey
RECURSIVE ChainLen(_)
ChainLen(key) == IF PageLen(key) = PageSize THEN 1 + ChainLen(key + PageSize) ELSE 1

\* C16: a run that meets no scan and no write failure does not fail: it ends
\* in completion after exactly one scan per page that remained from its start
\* cursor (an empty last page included), with the record removed and the
\* document saved; and no run scans more than the remaining pages.
C16_TerminatesInCompletion ==
    /\ pc = "exit_err" => error \in {"scan", "write"}
    /\ Len(scan_keys) <= ChainLen(start_key)
    /\ pc = "exit_ok" =>
          /\ Len(scan_keys) = ChainLen(start_key)
          /\ job_id \notin DOMAIN last_state
          /\ state_file = DocFile(last_state)

\* C17: when the loaded collection has no entry for the job's identifier, no
\* prompt is issued, the record {state: NEW, start_time: now} without cursor
\* is in the collection until the first checkpoint, and the first scan call
\* carries no cursor.
C17_FreshStart ==
    (pc \notin {"start", "crashed"} /\ job_id \notin DOMAIN LoadedDoc) =>
        /\ ~prompted
        /\ start_key = NoKey
        /\ Len(scan_keys) > 0 => scan_keys[1] = NoKey
        /\ BeforeFirstCheckpoint =>
              /\ job_id \in DOMAIN last_state
              /\ last_state[job_id] = [state |-> "NEW", start_time |-> start_now]

\* a job absent from a parsed document has issued its first scan
C17_Witness ==
    /\ loaded.valid
    /\ job_id \notin DOMAIN loaded.doc
    /\ Len(scan_keys) = 1
    /\ scan_keys[1] = NoKey
    /\ pc = "write"

\* C19: from the end of startup_check to the end of the run, a set in-memory
\* cursor is the cursor of a RUNNING record of the job in the collection; a
\* NEW record of the job carries no cursor and a RUNNING record carries a
\* cursor and an end_time.
C19_CursorRecordConsistent ==
    pc \notin {"start", "crashed"} =>
        /\ last_evaluated_key # NoKey =>
              /\ job_id \in DOMAIN last_state
              /\ Truthy(last_state[job_id])
              /\ last_state[job_id]["state"] = "RUNNING"
              /\ CursorOf(last_state[job_id]) = last_evaluated_key
        /\ (job_id \in DOMAIN last_state /\ Truthy(last_state[job_id])) =>
              /\ last_state[job_id]["state"] = "NEW" =>
                    "last_evaluated_key" \notin DOMAIN last_state[job_id]
              /\ last_state[job_id]["state"] = "RUNNING" =>
                    {"last_evaluated_key", "end_time"} \subseteq DOMAIN last_state[job_id]

\* C18: with two jobs on one state file, the file after both processes have
\* exited is the collection of the process that saved last, rewritten whole:
\* under the other job's identifier it holds what the last saver loaded at
\* its start, whatever the first saver wrote in between.
C18_LastSaverWins ==
    (Exited /\ other.pc = "exit") =>
        /\ other.save_saves = 1 =>
              /\ state_file = DocFile(other.last_state)
              /\ job_id \in DOMAIN state_file.doc <=> job_id \in DOMAIN other.loaded
              /\ job_id \in DOMAIN state_file.doc =>
                    state_file.doc[job_id] = other.loaded[job_id]
        /\ other.save_saves = 0 =>
              /\ state_file = DocFile(last_state)
              /\ OtherJob \in DOMAIN state_file.doc <=> OtherJob \in DOMAIN LoadedDoc
              /\ OtherJob \in DOMAIN state_file.doc =>
                    state_file.doc[OtherJob] = LoadedDoc[OtherJob]

\* both processes loaded before either saved, this job failed and saved its
\* RUNNING record, the other job saved after it: the record is not in the file
C18_Witness ==
    /\ pc = "exit_err"
    /\ other.pc = "exit"
    /\ other.load_saves = 0
    /\ other.save_saves = 1
    /\ job_id \in DOMAIN last_state
    /\ CursorOf(last_state[job_id]) # NoKey
    /\ job_id \notin DOMAIN state_file.doc

====
